---- MODULE Spec2Model ----
(***************************************************************************)
(* Model of django/db/migrations/graph.py: class Node and class           *)
(* MigrationGraph.                                                         *)
(*                                                                         *)
(* Node objects have an identity of their own: the object constructed by   *)
(* the g-th add_node call for key k is <<k, g>>, stored at objs[k][g].     *)
(* Node.__eq__ and Node.__hash__ compare (app_label, migration_name), so   *)
(* Python sets and dicts of Nodes hold at most one object per key and      *)
(* keep the object that was inserted first.                                *)
(*                                                                         *)
(* Node defines __eq__ and __hash__ but no __lt__: sorted() over two or    *)
(* more Node objects raises TypeError (Python 3).  A Node is no tuple      *)
(* either: "%s.%s" % node raises TypeError.                                *)
(***************************************************************************)
EXTENDS Integers, Sequences, FiniteSets, TLC

\* Bounds of the model.
MaxObjs == 3        \* Node objects constructed in one behaviour
MaxEdges == 4       \* entries of all parent sets together
MaxTargets == 2     \* targets in one call of make_state

\* Keys are (app_label, migration_name); labels and names are numbered.
Keys == {<<1, 1>>, <<1, 2>>, <<2, 1>>}
Apps == {k[1] : k \in Keys}
NoApp == 0          \* app=None
NoKey == <<0, 0>>

VARIABLES
    objs,       \* every Node constructed so far: objs[key][g]
    node_map,   \* MigrationGraph.node_map: key -> Node object (0: no entry)
    nodes,      \* MigrationGraph.nodes: Node (dict key object) -> implementation
    cached,     \* MigrationGraph.cached
    last        \* the latest call and its outcome

vars == <<objs, node_map, nodes, cached, last>>

\* the Node object a reference o = <<key, g>> points to
Obj(O, o) == O[o[1]][o[2]]
Refs(O) == {o \in Keys \X (1..MaxObjs) : o[2] <= Len(O[o[1]])}
NumObjs(O) == Cardinality(Refs(O))

----------------------------------------------------------------------------
\* Helpers over sequences

RECURSIVE SetToSeq(_)
SetToSeq(S) ==
    IF S = {} THEN <<>>
    ELSE LET x == CHOOSE y \in S : TRUE IN <<x>> \o SetToSeq(S \ {x})

Range(s) == {s[i] : i \in 1..Len(s)}

\* position of the first element of s equal to x (list.index)
Index(s, x) == CHOOSE i \in 1..Len(s) : s[i] = x /\ \A j \in 1..(i - 1) : s[j] # x

----------------------------------------------------------------------------
\* class Node

\* Node.__init__
NewNode(key, migration) ==
    [key |-> key, app_label |-> key[1], migration_name |-> key[2],
     migration |-> migration, children |-> {}, parents |-> {},
     descendants |-> <<>>, ancestors |-> <<>>]

\* Node.__eq__ between two Node objects of O
NodeEq(O, a, b) ==
    /\ Obj(O, a).app_label = Obj(O, b).app_label
    /\ Obj(O, a).migration_name = Obj(O, b).migration_name

\* set.add on a set of Nodes: an element equal to n keeps its place
SetAdd(O, S, n) == IF \E m \in S : NodeEq(O, m, n) THEN S ELSE S \cup {n}

\* Node.add_parent / Node.add_child
add_parent(O, self, parent) ==
    [O EXCEPT ![self[1]][self[2]].parents = SetAdd(O, @, parent)]

add_child(O, self, child) ==
    [O EXCEPT ![self[1]][self[2]].children = SetAdd(O, @, child)]

\* sorted() over a set of Node objects: Node has no ordering method
Sorted(S) ==
    IF Cardinality(S) >= 2
    THEN [st |-> "TypeError", val |-> <<>>]
    ELSE [st |-> "ok", val |-> SetToSeq(S)]

\* list(OrderedSet(seq)): first occurrences, elements compared by Node.__eq__
RECURSIVE OrderedSetList(_, _, _)
OrderedSetList(O, s, acc) ==
    IF s = <<>> THEN acc
    ELSE IF \E i \in 1..Len(acc) : NodeEq(O, acc[i], Head(s))
         THEN OrderedSetList(O, Tail(s), acc)
         ELSE OrderedSetList(O, Tail(s), Append(acc, Head(s)))

\* hasattr(node, 'ancestors') / hasattr(node, 'descendants')
HasAttr(O, o, attr) == Obj(O, o)[attr] # <<>>

Adjacent(O, o, attr) == IF attr = "ancestors" THEN Obj(O, o).parents ELSE Obj(O, o).children

\* Node.get_ancestors (attr = "ancestors") and Node.get_descendants
\* (attr = "descendants").  O is the heap of Node objects, path the objects
\* whose call is still on the Python stack: re-entering one of them never
\* returns and ends in RecursionError.  The result carries the heap with the
\* attributes the completed calls have set.
RECURSIVE get_closure(_, _, _, _)
RECURSIVE extend_closure(_, _, _, _, _)
get_closure(O, self, attr, path) ==
    IF HasAttr(O, self, attr)
    THEN [st |-> "ok", val |-> Obj(O, self)[attr], objs |-> O]
    ELSE IF self \in path
    THEN [st |-> "RecursionError", val |-> <<>>, objs |-> O]
    ELSE LET srt == Sorted(Adjacent(O, self, attr)) IN
         IF srt.st # "ok"
         THEN [st |-> srt.st, val |-> <<>>, objs |-> O]
         ELSE LET r == extend_closure(O, srt.val, <<self>>, attr, path \cup {self}) IN
              IF r.st # "ok" THEN r
              ELSE LET lst == OrderedSetList(r.objs, r.val, <<>>) IN
                   [st |-> "ok", val |-> lst,
                    objs |-> [r.objs EXCEPT ![self[1]][self[2]][attr] = lst]]

\* the for loop of get_ancestors / get_descendants:
\* deque.extendleft(reversed(x)) puts x, in its order, in front of the deque
extend_closure(O, todo, deq, attr, path) ==
    IF todo = <<>> THEN [st |-> "ok", val |-> deq, objs |-> O]
    ELSE LET r == get_closure(O, Head(todo), attr, path) IN
         IF r.st # "ok" THEN r
         ELSE extend_closure(r.objs, Tail(todo), r.val \o deq, attr, path)

----------------------------------------------------------------------------
\* class MigrationGraph

\* key in self.node_map / node in self.nodes
InNodeMap(key) == node_map[key] # 0
InNodes(key) == nodes[key].node # 0
NodeMap(key) == <<key, node_map[key]>>
\* the Node objects that are the keys of the dict self.nodes
NodeObjs(N) == {<<k, N[k].node>> : k \in {x \in Keys : N[x].node # 0}}

\* a clear_cache that resets the flag and leaves the attributes in place
clear_cache_flag_only(O, N, c) == [objs |-> O, cached |-> FALSE]

\* MigrationGraph.clear_cache on heap O, dict N and flag c
clear_cache(O, N, c) ==
    IF c
    THEN [objs |-> [k \in Keys |-> [g \in DOMAIN O[k] |->
                      IF <<k, g>> \in NodeObjs(N)
                      THEN [O[k][g] EXCEPT !.ancestors = <<>>, !.descendants = <<>>]
                      ELSE O[k][g]]],
          cached |-> FALSE]
    ELSE [objs |-> O, cached |-> c]

\* the get_children lambdas of forwards_plan / backwards_plan, by key:
\* lambda x: self.node_map[x].parents, lambda x: self.node_map[x].children
get_children(k, attr) == {Obj(objs, o).key : o \in Adjacent(objs, NodeMap(k), attr)}

\* "%s.%s" % n in ensure_not_cyclic: n is a Node of the stack, not a tuple,
\* and is taken as the single argument of a format that needs two
FormatNode(n) == [st |-> "TypeError", val |-> <<>>]

\* raise CircularDependencyError(", ".join("%s.%s" % n for n in cycle)):
\* the message is built first, node by node
RaiseCircular(cycle) ==
    IF \E i \in 1..Len(cycle) : FormatNode(cycle[i]).st # "ok"
    THEN "TypeError"
    ELSE "CircularDependencyError"

\* MigrationGraph.ensure_not_cyclic: the set of outcomes over every order in
\* which todo.pop() and the iteration of a neighbour set may deliver their
\* elements.  An outcome is <<>> (returns) or the slice of the stack that
\* the code names cycle.  Membership in todo and in stack compares Nodes by
\* key.
RECURSIVE ensure_walk(_, _, _)
ensure_walk(todo, stack, attr) ==
    IF stack = <<>>
    THEN IF todo = {} THEN {<<>>}
         ELSE UNION {ensure_walk(todo \ {n}, <<n>>, attr) : n \in todo}
    ELSE LET top == stack[Len(stack)]
             \* neighbours at which the for loop can stop
             live == {n \in get_children(top, attr) : n \in Range(stack) \/ n \in todo}
         IN IF live = {}
            THEN ensure_walk(todo, SubSeq(stack, 1, Len(stack) - 1), attr)
            ELSE UNION {IF n \in Range(stack)
                        THEN {SubSeq(stack, Index(stack, n), Len(stack))}
                        ELSE ensure_walk(todo \ {n}, Append(stack, n), attr)
                        : n \in live}

\* todo = set(self.nodes.keys()); start is not used
ensure_not_cyclic(start, attr) == ensure_walk({k \in Keys : InNodes(k)}, <<>>, attr)

KeysOf(O, s) == [i \in 1..Len(s) |-> Obj(O, s[i]).key]

NoCall == [op |-> "init", key |-> NoKey, key2 |-> NoKey, st |-> "ok", val |-> <<>>]

Init ==
    /\ objs = [k \in Keys |-> <<>>]
    /\ node_map = [k \in Keys |-> 0]
    /\ nodes = [k \in Keys |-> [node |-> 0, impl |-> 0]]
    /\ cached = FALSE
    /\ last = NoCall

\* The implementation handed to add_node is opaque to the graph; every call
\* passes a handle of its own, numbered per key.
Implementation(key) == Len(objs[key]) + 1

\* MigrationGraph.add_node(key, implementation)
add_node(key, implementation) ==
    /\ NumObjs(objs) < MaxObjs
    /\ LET node == Len(objs[key]) + 1
           O1 == [objs EXCEPT ![key] = Append(@, NewNode(key, implementation))]
           N1 == [nodes EXCEPT ![key] =
                    [node |-> IF @.node = 0 THEN node ELSE @.node,
                     impl |-> implementation]]
           cc == clear_cache(O1, N1, cached)
       IN /\ node_map' = [node_map EXCEPT ![key] = node]
          /\ nodes' = N1
          /\ objs' = cc.objs
          /\ cached' = cc.cached
    /\ last' = [op |-> "add_node", key |-> key, key2 |-> NoKey, st |-> "ok", val |-> <<>>]

RECURSIVE SumOver(_, _)
SumOver(S, O) ==
    IF S = {} THEN 0
    ELSE LET o == CHOOSE x \in S : TRUE IN
         Cardinality(Obj(O, o).parents) + SumOver(S \ {o}, O)
NumEdges(O) == SumOver(Refs(O), O)

\* an add_dependency that looks the parent up before the child
add_dependency_parent_first(child, parent) ==
    IF ~InNodeMap(parent)
    THEN /\ last' = [op |-> "add_dependency", key |-> child, key2 |-> parent,
                     st |-> "NodeNotFoundError", val |-> parent]
         /\ UNCHANGED <<objs, node_map, nodes, cached>>
    ELSE IF ~InNodeMap(child)
    THEN /\ last' = [op |-> "add_dependency", key |-> child, key2 |-> parent,
                     st |-> "NodeNotFoundError", val |-> child]
         /\ UNCHANGED <<objs, node_map, nodes, cached>>
    ELSE /\ LET O1 == add_parent(objs, NodeMap(child), NodeMap(parent))
                O2 == add_child(O1, NodeMap(parent), NodeMap(child))
                cc == clear_cache(O2, nodes, cached)
            IN /\ NumEdges(O2) <= MaxEdges
               /\ objs' = cc.objs
               /\ cached' = cc.cached
         /\ last' = [op |-> "add_dependency", key |-> child, key2 |-> parent,
                     st |-> "ok", val |-> <<>>]
         /\ UNCHANGED <<node_map, nodes>>

\* MigrationGraph.add_dependency(migration, child, parent)
add_dependency(child, parent) ==
    IF ~InNodeMap(child)
    THEN /\ last' = [op |-> "add_dependency", key |-> child, key2 |-> parent,
                     st |-> "NodeNotFoundError", val |-> child]
         /\ UNCHANGED <<objs, node_map, nodes, cached>>
    ELSE IF ~InNodeMap(parent)
    THEN /\ last' = [op |-> "add_dependency", key |-> child, key2 |-> parent,
                     st |-> "NodeNotFoundError", val |-> parent]
         /\ UNCHANGED <<objs, node_map, nodes, cached>>
    ELSE /\ LET O1 == add_parent(objs, NodeMap(child), NodeMap(parent))
                O2 == add_child(O1, NodeMap(parent), NodeMap(child))
                cc == clear_cache(O2, nodes, cached)
            IN /\ NumEdges(O2) <= MaxEdges
               /\ objs' = cc.objs
               /\ cached' = cc.cached
         /\ last' = [op |-> "add_dependency", key |-> child, key2 |-> parent,
                     st |-> "ok", val |-> <<>>]
         /\ UNCHANGED <<node_map, nodes>>

\* a plan query that sets the flag before its checks
PlanOutcomes_flag_first(node, attr) ==
    IF ~InNodes(node)
    THEN {[st |-> "NodeNotFoundError", val |-> node, objs |-> objs, cached |-> TRUE]}
    ELSE {IF cycle # <<>>
          THEN [st |-> RaiseCircular(cycle),
                val |-> IF RaiseCircular(cycle) = "CircularDependencyError"
                        THEN cycle ELSE <<>>,
                objs |-> objs, cached |-> TRUE]
          ELSE LET r == get_closure(objs, NodeMap(node), attr, {}) IN
               [st |-> r.st, val |-> KeysOf(r.objs, r.val),
                objs |-> r.objs, cached |-> TRUE]
          : cycle \in ensure_not_cyclic(node, attr)}

\* The outcomes of forwards_plan (attr = "ancestors") and backwards_plan
\* (attr = "descendants") on node in the current state: the error or the
\* returned list, with the heap and the flag the call leaves behind.
PlanOutcomes(node, attr) ==
    IF ~InNodes(node)
    THEN {[st |-> "NodeNotFoundError", val |-> node, objs |-> objs, cached |-> cached]}
    ELSE {IF cycle # <<>>
          THEN [st |-> RaiseCircular(cycle),
                val |-> IF RaiseCircular(cycle) = "CircularDependencyError"
                        THEN cycle ELSE <<>>,
                objs |-> objs, cached |-> cached]
          ELSE LET r == get_closure(objs, NodeMap(node), attr, {}) IN
               [st |-> r.st, val |-> KeysOf(r.objs, r.val),
                objs |-> r.objs, cached |-> TRUE]
          : cycle \in ensure_not_cyclic(node, attr)}

plan(op, node, attr) ==
    \E out \in PlanOutcomes(node, attr) :
        /\ objs' = out.objs
        /\ cached' = out.cached
        /\ last' = [op |-> op, key |-> node, key2 |-> NoKey,
                    st |-> out.st, val |-> out.val]
        /\ UNCHANGED <<node_map, nodes>>

\* MigrationGraph.forwards_plan(node)
forwards_plan(node) == plan("forwards_plan", node, "ancestors")

\* MigrationGraph.backwards_plan(node)
backwards_plan(node) == plan("backwards_plan", node, "descendants")

\* a listing that runs the cycle check of the plans first
Listing_after_cycle_check(attr, app) ==
    IF \E cycle \in ensure_not_cyclic(NoKey, attr) : cycle # <<>>
    THEN [st |-> "TypeError", val |-> <<>>]
    ELSE Sorted({node \in NodeObjs(nodes) :
              /\ ~\E key \in Adjacent(objs, node, attr) :
                    Obj(objs, key).app_label = Obj(objs, node).app_label
              /\ (app = NoApp \/ app = Obj(objs, node).app_label)})

\* root_nodes (attr = "ancestors": node.parents) and leaf_nodes
\* (attr = "descendants": node.children); the loop runs over the Node objects
\* that are the keys of self.nodes
Listing(attr, app) ==
    Sorted({node \in NodeObjs(nodes) :
              /\ ~\E key \in Adjacent(objs, node, attr) :
                    Obj(objs, key).app_label = Obj(objs, node).app_label
              /\ (app = NoApp \/ app = Obj(objs, node).app_label)})

listing(op, attr, app) ==
    /\ LET r == Listing(attr, app) IN
       last' = [op |-> op, key |-> <<app, 0>>, key2 |-> NoKey,
                st |-> r.st, val |-> KeysOf(objs, r.val)]
    /\ UNCHANGED <<objs, node_map, nodes, cached>>

\* MigrationGraph.root_nodes(app)
root_nodes(app) == listing("root_nodes", "ancestors", app)

\* MigrationGraph.leaf_nodes(app)
leaf_nodes(app) == listing("leaf_nodes", "descendants", app)

\* MigrationGraph.clear_cache() called from outside
clear_cache_call ==
    /\ LET cc == clear_cache(objs, nodes, cached) IN
          objs' = cc.objs /\ cached' = cc.cached
    /\ last' = [op |-> "clear_cache", key |-> NoKey, key2 |-> NoKey,
                st |-> "ok", val |-> <<>>]
    /\ UNCHANGED <<node_map, nodes>>

Reverse(s) == [i \in 1..Len(s) |-> s[Len(s) + 1 - i]]

\* list(OrderedSet(visited)) in dfs: start (a key) and Nodes, equal by key
RECURSIVE OrderedSetKeys(_, _)
OrderedSetKeys(s, acc) ==
    IF s = <<>> THEN acc
    ELSE OrderedSetKeys(Tail(s),
            IF \E i \in 1..Len(acc) : acc[i] = Head(s) THEN acc ELSE Append(acc, Head(s)))

\* the while loop of dfs; stack and visited are deques, left end first
RECURSIVE dfs_loop(_, _, _)
dfs_loop(stack, visited, attr) ==
    IF stack = <<>> THEN [st |-> "ok", val |-> visited]
    ELSE LET node == Head(stack)                                \* stack.popleft()
             srt == Sorted(get_children(node, attr))
             children == Reverse(srt.val)                       \* sorted(..., reverse=True)
         IN IF srt.st # "ok" THEN [st |-> srt.st, val |-> <<>>]
            ELSE dfs_loop(Reverse(children) \o Tail(stack),     \* stack.extendleft(children)
                          <<node>> \o visited,                  \* visited.appendleft(node)
                          attr)

\* a dfs that returns the nodes in the order of their visit
DfsOutcomes_visit_order(start, attr) ==
    {IF cycle # <<>> THEN [st |-> RaiseCircular(cycle), val |-> <<>>]
     ELSE IF ~InNodeMap(start) THEN [st |-> "KeyError", val |-> <<>>]
     ELSE LET srt == Sorted(get_children(start, attr)) IN
          IF srt.st # "ok" THEN [st |-> srt.st, val |-> <<>>]
          ELSE LET r == dfs_loop(srt.val, <<start>>, attr) IN
               IF r.st # "ok" THEN r
               ELSE [st |-> "ok", val |-> OrderedSetKeys(Reverse(r.val), <<>>)]
     : cycle \in ensure_not_cyclic(start, attr)}

\* MigrationGraph.dfs(start, get_children) with the get_children of
\* forwards_plan (attr = "ancestors") or backwards_plan (attr = "descendants"):
\* the outcomes over the orders the cycle check may take
DfsOutcomes(start, attr) ==
    {IF cycle # <<>> THEN [st |-> RaiseCircular(cycle), val |-> <<>>]
     ELSE IF ~InNodeMap(start) THEN [st |-> "KeyError", val |-> <<>>]   \* self.node_map[x]
     ELSE LET srt == Sorted(get_children(start, attr)) IN
          IF srt.st # "ok" THEN [st |-> srt.st, val |-> <<>>]
          ELSE LET r == dfs_loop(srt.val, <<start>>, attr) IN
               IF r.st # "ok" THEN r
               ELSE [st |-> "ok", val |-> OrderedSetKeys(r.val, <<>>)]
     : cycle \in ensure_not_cyclic(start, attr)}

dfs(start, attr) ==
    /\ \E out \in DfsOutcomes(start, attr) :
          last' = [op |-> IF attr = "ancestors" THEN "dfs_parents" ELSE "dfs_children",
                   key |-> start, key2 |-> NoKey, st |-> out.st, val |-> out.val]
    /\ UNCHANGED <<objs, node_map, nodes, cached>>

\* The target lists handed to make_state: lists of at most MaxTargets keys
TargetLists == UNION {[1..n -> Keys] : n \in 0..MaxTargets}

\* key in a list of keys or Nodes: compared by Node.__eq__ / tuple equality
InList(k, s) == \E i \in 1..Len(s) : s[i] = k

\* the inner loop of make_state over one forwards_plan:
\*   if migration not in plan:
\*       if not at_end and migration in nodes: continue
\*       plan.append(migration)
RECURSIVE plan_extend(_, _, _, _)
plan_extend(migrations, planned, targets, at_end) ==
    IF migrations = <<>> THEN planned
    ELSE LET migration == Head(migrations) IN
         plan_extend(Tail(migrations),
                     IF InList(migration, planned) THEN planned
                     ELSE IF ~at_end /\ InList(migration, targets) THEN planned
                     ELSE Append(planned, migration),
                     targets, at_end)

\* the outer loop of make_state: forwards_plan of every target in turn, on the
\* heap O and the flag c that the earlier calls have left; the outcomes are
\* [st, val, objs, cached] with val the plan
RECURSIVE make_plan(_, _, _, _, _, _)
make_plan(todo, planned, O, c, targets, at_end) ==
    IF todo = <<>>
    THEN {[st |-> "ok", val |-> planned, objs |-> O, cached |-> c]}
    ELSE LET node == Head(todo) IN
         IF ~InNodes(node)
         THEN {[st |-> "NodeNotFoundError", val |-> <<>>, objs |-> O, cached |-> c]}
         ELSE UNION {
              IF cycle # <<>>
              THEN {[st |-> RaiseCircular(cycle), val |-> <<>>, objs |-> O, cached |-> c]}
              ELSE LET r == get_closure(O, NodeMap(node), "ancestors", {}) IN
                   IF r.st # "ok"
                   THEN {[st |-> r.st, val |-> <<>>, objs |-> r.objs, cached |-> TRUE]}
                   ELSE make_plan(Tail(todo),
                                  plan_extend(KeysOf(r.objs, r.val), planned, targets, at_end),
                                  r.objs, TRUE, targets, at_end)
              : cycle \in ensure_not_cyclic(node, "ancestors")}

\* The outcomes of make_state.  default stands for nodes=None, where the
\* targets are list(self.leaf_nodes()); a single key given as nodes is the
\* one-element list.  The ProjectState returned is the list of the keys whose
\* implementation has mutated it, in order: self.nodes[node].mutate_state.
MakeStateOutcomes(default, targets, at_end) ==
    LET leaves == Listing("descendants", NoApp) IN
    IF default /\ leaves.st # "ok"
    THEN {[st |-> leaves.st, val |-> <<>>, objs |-> objs, cached |-> cached]}
    ELSE LET nodes_ == IF default THEN KeysOf(objs, leaves.val) ELSE targets IN
         IF Len(nodes_) = 0
         THEN {[st |-> "ok", val |-> <<>>, objs |-> objs, cached |-> cached]}
         ELSE make_plan(nodes_, <<>>, objs, cached, nodes_, at_end)

\* MigrationGraph.make_state(nodes, at_end)
make_state(default, targets, at_end) ==
    \E out \in MakeStateOutcomes(default, targets, at_end) :
        /\ objs' = out.objs
        /\ cached' = out.cached
        /\ last' = [op |-> "make_state", key |-> NoKey, key2 |-> NoKey, st |-> out.st,
                    val |-> [default |-> default, targets |-> targets,
                             at_end |-> at_end, applied |-> out.val]]
        /\ UNCHANGED <<node_map, nodes>>

Next ==
    \/ \E key \in Keys : add_node(key, Implementation(key))
    \/ \E child \in Keys, parent \in Keys : add_dependency(child, parent)
    \/ \E node \in Keys : forwards_plan(node)
    \/ \E node \in Keys : backwards_plan(node)
    \/ \E app \in Apps \cup {NoApp} : root_nodes(app)
    \/ \E app \in Apps \cup {NoApp} : leaf_nodes(app)
    \/ clear_cache_call

Spec == Init /\ [][Next]_vars

\* Graphs built by add_node calls with keys not yet in the graph.
NextFresh ==
    \/ \E key \in Keys : ~InNodeMap(key) /\ add_node(key, Implementation(key))
    \/ \E child \in Keys, parent \in Keys : add_dependency(child, parent)
    \/ \E node \in Keys : forwards_plan(node)
    \/ \E node \in Keys : backwards_plan(node)
    \/ \E app \in Apps \cup {NoApp} : root_nodes(app)
    \/ \E app \in Apps \cup {NoApp} : leaf_nodes(app)
    \/ clear_cache_call

SpecFresh == Init /\ [][NextFresh]_vars

\* The graph built with fresh keys, with dfs among its queries.
NextDfs ==
    \/ NextFresh
    \/ \E start \in Keys, attr \in {"ancestors", "descendants"} : dfs(start, attr)

SpecDfs == Init /\ [][NextDfs]_vars

\* The graph built with fresh keys, with make_state among its queries.
NextState ==
    \/ NextFresh
    \/ \E at_end \in BOOLEAN : make_state(TRUE, <<>>, at_end)
    \/ \E targets \in TargetLists, at_end \in BOOLEAN : make_state(FALSE, targets, at_end)

SpecState == Init /\ [][NextState]_vars

----------------------------------------------------------------------------
\* The graph as the claims speak of it: keys and parent -> child edges, read
\* off the nodes the keys resolve to.

Present == {k \in Keys : InNodeMap(k)}
ParentsOf(k) == {Obj(objs, o).key : o \in Obj(objs, NodeMap(k)).parents}
ChildrenOf(k) == {Obj(objs, o).key : o \in Obj(objs, NodeMap(k)).children}
Edges == {e \in Present \X Present : e[1] \in ParentsOf(e[2])}

RECURSIVE TC(_)
TC(R) ==
    LET R2 == R \cup {e \in Keys \X Keys :
                        \E b \in Keys : <<e[1], b>> \in R /\ <<b, e[2]>> \in R}
    IN IF R2 = R THEN R ELSE TC(R2)

HasCycle == \E k \in Keys : <<k, k>> \in TC(Edges)
Ancestors(n) == {a \in Keys : <<a, n>> \in TC(Edges)}
Descendants(n) == {d \in Keys : <<n, d>> \in TC(Edges)}

\* (partition, name) order on keys
KeyLess(a, b) == a[1] < b[1] \/ (a[1] = b[1] /\ a[2] < b[2])

RECURSIVE SortKeys(_)
SortKeys(S) ==
    IF S = {} THEN <<>>
    ELSE LET m == CHOOSE x \in S : \A y \in S \ {x} : KeyLess(x, y)
         IN <<m>> \o SortKeys(S \ {m})

RECURSIVE FirstOccurrences(_, _)
FirstOccurrences(s, acc) ==
    IF s = <<>> THEN acc
    ELSE FirstOccurrences(Tail(s),
            IF Head(s) \in Range(acc) THEN acc ELSE Append(acc, Head(s)))

NoRepeat(s) == \A i, j \in 1..Len(s) : i # j => s[i] # s[j]

IsPlanCall(op) == last.op = op /\ InNodes(last.key)

\* C1: on an acyclic graph forward_plan(n) returns a sequence that ends in n,
\* holds n and every transitive ancestor of n exactly once and nothing else,
\* and lists the parent of every edge before its child.
C1_ForwardPlan ==
    (IsPlanCall("forwards_plan") /\ ~HasCycle) =>
        /\ last.st = "ok"
        /\ Len(last.val) >= 1
        /\ last.val[Len(last.val)] = last.key
        /\ Range(last.val) = Ancestors(last.key) \cup {last.key}
        /\ NoRepeat(last.val)
        /\ \A i, j \in 1..Len(last.val) :
              <<last.val[i], last.val[j]>> \in Edges => i < j

\* C2: on an acyclic graph backward_plan(n) returns a sequence that ends in
\* n, holds n and every transitive descendant of n exactly once and nothing
\* else, and lists the child of every edge before its parent.
C2_BackwardPlan ==
    (IsPlanCall("backwards_plan") /\ ~HasCycle) =>
        /\ last.st = "ok"
        /\ Len(last.val) >= 1
        /\ last.val[Len(last.val)] = last.key
        /\ Range(last.val) = Descendants(last.key) \cup {last.key}
        /\ NoRepeat(last.val)
        /\ \A i, j \in 1..Len(last.val) :
              <<last.val[i], last.val[j]>> \in Edges => j < i

\* C3: a plan query on a key of the graph fails with
\* CircularDependencyError exactly when the graph has a directed cycle
\* anywhere, a self-edge and a cycle away from the queried key included.
C3_CycleIffError ==
    (IsPlanCall("forwards_plan") \/ IsPlanCall("backwards_plan")) =>
        (last.st = "CircularDependencyError" <=> HasCycle)

\* every memoized attribute removed: the heap a computation from scratch sees
Scratch == [k \in Keys |-> [g \in DOMAIN objs[k] |->
               [objs[k][g] EXCEPT !.ancestors = <<>>, !.descendants = <<>>]]]

\* C4: with add_node called on fresh keys only, a plan query returns what a
\* computation without any memoized data returns on the current nodes and
\* edges, whatever mutations and queries came before.
C4_PlanFromScratch ==
    \A n \in Keys : InNodes(n) =>
        \A attr \in {"ancestors", "descendants"} :
            LET now == get_closure(objs, NodeMap(n), attr, {})
                scr == get_closure(Scratch, NodeMap(n), attr, {})
            IN /\ now.st = scr.st
               /\ now.val = scr.val
               /\ (IsPlanCall("forwards_plan") /\ last.st = "ok" /\ last.key = n
                     /\ attr = "ancestors") => last.val = KeysOf(objs, scr.val)
               /\ (IsPlanCall("backwards_plan") /\ last.st = "ok" /\ last.key = n
                     /\ attr = "descendants") => last.val = KeysOf(objs, scr.val)

\* a plan of three nodes was returned while another node holds a memoized
\* sequence of an earlier query
C4_Witness ==
    /\ IsPlanCall("forwards_plan") /\ last.st = "ok" /\ Len(last.val) = 3
    /\ cached
    /\ \E k \in Keys \ {last.key} :
          InNodes(k) /\ HasAttr(objs, NodeMap(k), "descendants")

\* C5: add_node on a key already in the graph fails with DuplicateNodeError
\* and leaves the node the key resolves to and its payload as they were.
C5_DuplicateRejected ==
    (last.op = "add_node" /\ Len(objs[last.key]) > 1) =>
        /\ last.st = "DuplicateNodeError"
        /\ node_map[last.key] = nodes[last.key].node
        /\ nodes[last.key].impl = Obj(objs, <<last.key, nodes[last.key].node>>).migration

\* C6: add_dependency fails with NodeNotFoundError exactly when the child key
\* or the parent key is absent; the error carries the absent key, the child
\* key when both are absent.
C6_MissingKey ==
    last.op = "add_dependency" =>
        /\ last.st = "NodeNotFoundError"
             <=> (~InNodeMap(last.key) \/ ~InNodeMap(last.key2))
        /\ last.st = "NodeNotFoundError" =>
             last.val = IF ~InNodeMap(last.key) THEN last.key ELSE last.key2
        /\ last.st \in {"NodeNotFoundError", "ok"}

\* add_dependency was called with two absent keys that differ
C6_Witness ==
    /\ last.op = "add_dependency" /\ last.st = "NodeNotFoundError"
    /\ ~InNodeMap(last.key) /\ ~InNodeMap(last.key2)
    /\ last.key # last.key2 /\ last.val = last.key

\* C7: adjacency is mirrored for the nodes the keys resolve to: A is among the
\* parents of B's node exactly when B is among the children of A's node.
C7_Mirrored ==
    \A A \in Present, B \in Present : A \in ParentsOf(B) <=> B \in ChildrenOf(A)

\* the nodes of partition app (every partition for NoApp) without a neighbour
\* of their own partition among nbrs
Local(nbrs(_), app) ==
    {n \in Present : /\ app = NoApp \/ n[1] = app
                     /\ ~\E m \in nbrs(n) : m[1] = n[1]}

\* C8: root_nodes(p) lists exactly the nodes of p without a parent in p,
\* leaf_nodes(p) exactly the nodes of p without a child in p, every partition
\* when none is given, in ascending (partition, name) order.
C8_RootsAndLeaves ==
    /\ last.op = "root_nodes" =>
          last.st = "ok" /\ last.val = SortKeys(Local(ParentsOf, last.key[1]))
    /\ last.op = "leaf_nodes" =>
          last.st = "ok" /\ last.val = SortKeys(Local(ChildrenOf, last.key[1]))

\* the plan that the node set, the edge set and the key order alone fix:
\* the parents' plans in key order, each put in front, first occurrences kept
RECURSIVE KeyOrderPlan(_)
RECURSIVE KeyOrderChains(_)
KeyOrderPlan(n) == FirstOccurrences(KeyOrderChains(SortKeys(ParentsOf(n))) \o <<n>>, <<>>)
KeyOrderChains(ps) ==
    IF ps = <<>> THEN <<>>
    ELSE KeyOrderChains(Tail(ps)) \o KeyOrderPlan(Head(ps))

\* C9: forward_plan(n) is a function of the final node set, edge set and key
\* order: call sequences that build the same graph in another order get the
\* same sequence.
C9_InsertionOrderFree ==
    (IsPlanCall("forwards_plan") /\ ~HasCycle) =>
        last.st = "ok" /\ last.val = KeyOrderPlan(last.key)

\* every plan query on a key of the graph fails with CircularDependencyError
AllPlansFail ==
    \A n \in Keys : InNodes(n) =>
        \A attr \in {"ancestors", "descendants"} :
            \A out \in PlanOutcomes(n, attr) : out.st = "CircularDependencyError"

\* C10: once the graph has a cycle, add_node and add_dependency calls never
\* make a plan query succeed again.
C10_CycleStays ==
    [][(HasCycle /\ last'.op \in {"add_node", "add_dependency"})
          => AllPlansFail']_vars

IsListing == last.op \in {"root_nodes", "leaf_nodes"}
Qualifying == IF last.op = "root_nodes" THEN Local(ParentsOf, last.key[1])
              ELSE Local(ChildrenOf, last.key[1])

IsDfs == last.op \in {"dfs_parents", "dfs_children"}
Nbrs(k, op) == IF op = "dfs_parents" THEN ParentsOf(k) ELSE ChildrenOf(k)

\* the nodes in the order in which a depth-first search from the head of
\* todo first visits them, neighbours taken in ascending key order
RECURSIVE FirstVisited(_, _, _)
FirstVisited(todo, seen, op) ==
    IF todo = <<>> THEN seen
    ELSE IF Head(todo) \in Range(seen) THEN FirstVisited(Tail(todo), seen, op)
    ELSE FirstVisited(SortKeys(Nbrs(Head(todo), op)) \o Tail(todo),
                      Append(seen, Head(todo)), op)

IsMakeState == last.op = "make_state"
Before(s, a, b) == \E i, j \in 1..Len(s) : i < j /\ s[i] = a /\ s[j] = b
ParentsFirst(s) == \A e \in Edges : (e[1] \in Range(s) /\ e[2] \in Range(s)) => Before(s, e[1], e[2])
WithAncestors(S) == S \cup UNION {Ancestors(t) : t \in S}

\* C13: make_state(targets, at_end) on an acyclic graph, every target a node:
\* with at_end true the implementations applied are every target and every
\* ancestor of a target, each once, parents before children; with at_end
\* false they are the same without the targets, in the same order; with no
\* target nothing is applied.
C13_MakeState ==
    (/\ IsMakeState /\ ~last.val.default /\ ~HasCycle
     /\ \A i \in 1..Len(last.val.targets) : InNodes(last.val.targets[i])) =>
        /\ last.st = "ok"
        /\ NoRepeat(last.val.applied) /\ ParentsFirst(last.val.applied)
        /\ Range(last.val.applied) =
              IF last.val.at_end THEN WithAncestors(Range(last.val.targets))
              ELSE WithAncestors(Range(last.val.targets)) \ Range(last.val.targets)

\* C14: while the flag cached is false no node that a key resolves to holds a
\* memoized list, and right after add_node, a successful add_dependency and
\* clear_cache no Node holds one.
Memoized(o) == HasAttr(objs, o, "ancestors") \/ HasAttr(objs, o, "descendants")
C14_NoStaleMemo ==
    /\ ~cached => \A k \in Present : ~Memoized(NodeMap(k))
    /\ (last.st = "ok" /\ last.op \in {"add_node", "add_dependency", "clear_cache"}) =>
          \A o \in Refs(objs) : ~Memoized(o)

\* a cycle in the relation that the failed call walks
GenuineCycle(c, op) ==
    /\ Len(c) >= 1 /\ NoRepeat(c)
    /\ \A i \in 1..Len(c) :
          c[IF i = Len(c) THEN 1 ELSE i + 1] \in
              (IF op \in {"forwards_plan", "dfs_parents"} THEN ParentsOf(c[i]) ELSE ChildrenOf(c[i]))

\* C15: when the cycle check of a plan fails, the failure reports a cycle of
\* the graph: keys pairwise distinct, each with the next among its
\* neighbours, the last with the first.
C15_CycleReported ==
    (last.op \in {"forwards_plan", "backwards_plan"} /\ InNodes(last.key) /\ HasCycle) =>
        last.st = "CircularDependencyError" /\ GenuineCycle(last.val, last.op)

\* C16: in forward_plan(n) the chains of the direct parents of n stand in
\* ascending key order of the parents: for parents P < Q every node of the
\* chain of P stands before every node that only the chain of Q brings.
C16_ParentChainsAscending ==
    (IsPlanCall("forwards_plan") /\ ~HasCycle) =>
        /\ last.st = "ok"
        /\ \A P, Q \in ParentsOf(last.key) : KeyLess(P, Q) =>
              \A x \in WithAncestors({P}), y \in WithAncestors({Q}) \ WithAncestors({P}) :
                  Before(last.val, x, y)

\* C17: every query ends by returning or by a failure of its own checks: the
\* recursion of get_ancestors / get_descendants is never entered on Node
\* objects on which it does not end.
C17_RecursionEnds == last.st # "RecursionError"

\* C18: make_state with the default targets on a graph that contains a cycle
\* fails with CircularDependencyError; it never returns a state.
C18_DefaultTargetsCycle ==
    (IsMakeState /\ last.val.default /\ HasCycle) => last.st = "CircularDependencyError"

\* C19: on an acyclic graph built with distinct keys, make_state with the
\* default targets and at_end true applies the implementation of every node
\* exactly once, parents before children.
C19_DefaultTargetsAll ==
    (IsMakeState /\ last.val.default /\ last.val.at_end /\ ~HasCycle) =>
        /\ last.st = "ok"
        /\ Range(last.val.applied) = Present
        /\ NoRepeat(last.val.applied) /\ ParentsFirst(last.val.applied)

\* C20: a failing add_dependency, a failing plan query and every root_nodes
\* and leaf_nodes call leave the nodes, the parent and child sets, the
\* memoized lists and the flag cached as they were; a plan query that returns
\* changes the memoized lists and the flag only.
C20_Frame ==
    [][/\ (last'.op = "add_dependency" /\ last'.st = "NodeNotFoundError") =>
             UNCHANGED <<objs, node_map, nodes, cached>>
       /\ (/\ last'.op \in {"forwards_plan", "backwards_plan"}
           /\ \/ last'.st \in {"NodeNotFoundError", "CircularDependencyError"}
              \/ HasCycle) =>
             UNCHANGED <<objs, node_map, nodes, cached>>
       /\ last'.op \in {"root_nodes", "leaf_nodes"} =>
             UNCHANGED <<objs, node_map, nodes, cached>>
       /\ (last'.op \in {"forwards_plan", "backwards_plan"} /\ last'.st = "ok") =>
             Scratch' = Scratch /\ UNCHANGED <<node_map, nodes>>]_vars

C20_Witness ==
    /\ last.op = "forwards_plan" /\ last.st = "NodeNotFoundError"
    /\ cached /\ \E o \in Refs(objs) : Memoized(o)

====
